---- MODULE Spec2Model ----
(***************************************************************************)
(* Model of json-typescript-decoder (src/src/index.ts).                    *)
(*                                                                         *)
(* Three state machines share this module:                                 *)
(*   Spec        one run of generate(schema, outputFolder, options) on a   *)
(*               file system, with the libuv write tasks it starts;        *)
(*   SpecWriter  a sequence of writeFilePromise(file, data) calls, each    *)
(*               finished before the next begins;                          *)
(*   SpecDecode  the generated module at run time: calls of the decode     *)
(*               functions of the registry class.                          *)
(*                                                                         *)
(* Text is a sequence of tokens.  A token is one character in identifiers  *)
(* (definition keys, titles, names) and a word, or the single space " ",   *)
(* in messages and file contents.                                          *)
(***************************************************************************)
EXTENDS Naturals, Sequences, FiniteSets, TLC

(* Bounds of the model. *)
MaxDefs == 2
MaxErrors == 2
MaxCalls == 3
MaxWriterCalls == 2

-----------------------------------------------------------------------------
(* Text helpers. *)

RECURSIVE Flatten(_)
Flatten(ss) == IF ss = <<>> THEN <<>> ELSE Head(ss) \o Flatten(Tail(ss))

RECURSIVE JoinWith(_, _)
JoinWith(ss, sep) ==
  IF ss = <<>> THEN <<>>
  ELSE IF Len(ss) = 1 THEN Head(ss)
  ELSE Head(ss) \o sep \o JoinWith(Tail(ss), sep)

-----------------------------------------------------------------------------
(* toSafeString: upperFirst(camelCase(string)), on the alphabet a b A B _ . *)

LowerCh == {"a", "b"}
UpperCh == {"A", "B"}

ToLowerCh(c) == IF c = "A" THEN "a" ELSE IF c = "B" THEN "b" ELSE c
ToUpperCh(c) == IF c = "a" THEN "A" ELSE IF c = "b" THEN "B" ELSE c

toLowerCase(w) == [i \in DOMAIN w |-> ToLowerCh(w[i])]

upperFirst(w) == IF w = <<>> THEN w ELSE <<ToUpperCh(w[1])>> \o Tail(w)

capitalize(w) == upperFirst(toLowerCase(w))

(* Last index j >= i-1 such that s[i..j] lies in class cls. *)
RECURSIVE RunEnd(_, _, _)
RunEnd(s, i, cls) ==
  IF i <= Len(s) /\ s[i] \in cls THEN RunEnd(s, i + 1, cls) ELSE i - 1

(* End of the word lodash's words() matches at i, a letter: an optional    *)
(* upper-case letter and a run of lower-case ones, or a run of upper-case  *)
(* letters that stops before an upper-case letter starting the next word.  *)
WordEnd(s, i) ==
  IF s[i] \in LowerCh THEN RunEnd(s, i, LowerCh)
  ELSE IF i + 1 <= Len(s) /\ s[i + 1] \in LowerCh THEN RunEnd(s, i + 1, LowerCh)
  ELSE LET u == RunEnd(s, i, UpperCh)
       IN  IF u < Len(s) /\ s[u + 1] \in LowerCh THEN u - 1 ELSE u

RECURSIVE WordsFrom(_, _)
WordsFrom(s, i) ==
  IF i > Len(s) THEN <<>>
  ELSE IF s[i] \notin (LowerCh \cup UpperCh) THEN WordsFrom(s, i + 1)
  ELSE LET j == WordEnd(s, i)
       IN  <<SubSeq(s, i, j)>> \o WordsFrom(s, j + 1)

words(s) == WordsFrom(s, 1)

(* camelCase: the first word lower-cased, every later word capitalized. *)
camelCase(s) ==
  LET ws == words(s)
  IN  Flatten([i \in DOMAIN ws |->
                 IF i = 1 THEN toLowerCase(ws[i]) ELSE capitalize(ws[i])])

toSafeString(s) == upperFirst(camelCase(s))

-----------------------------------------------------------------------------
(* The file system and writeFilePromise (lines 34-54). *)

NoFile == [exists |-> FALSE, bytes |-> <<>>]
FileOf(b) == [exists |-> TRUE, bytes |-> b]

(* new Buffer(data, 'UTF-8') and writeFile's default encoding: a lone      *)
(* surrogate has no UTF-8 form and is encoded as U+FFFD (EF BF BD).        *)
Utf8Unit(u) == IF u \in {"\\uD800", "\\uFFFD"} THEN "EF BF BD" ELSE u
Utf8(data) == [i \in DOMAIN data |-> Utf8Unit(data[i])]

(* Mutant: the file's bytes compared with the string, not with its encoding. *)
SameOnDiskRaw(fs, file, data) == fs[file].exists /\ fs[file].bytes = data

(* Lines 37-42: the file exists and its bytes equal the candidate's. *)
SameOnDisk(fs, file, data) == fs[file].exists /\ fs[file].bytes = Utf8(data)

(* Lines 35-49, the synchronous part of the promise executor: resolve at   *)
(* once, or hand the write to fs.writeFile.                                *)
StartWrite(fs, file, data) ==
  [file |-> file, data |-> data,
   st |-> IF SameOnDisk(fs, file, data) THEN "resolved" ELSE "writing",
   issued |-> ~SameOnDisk(fs, file, data)]

(* Line 41: readFileSync throws inside the executor, which rejects. *)
ReadFailed(file, data) ==
  [file |-> file, data |-> data, st |-> "rejected", issued |-> FALSE]

StartOutcomes(fs, file, data) ==
  { StartWrite(fs, file, data) }
    \cup (IF fs[file].exists THEN { ReadFailed(file, data) } ELSE {})

(* Line 49, fs.writeFile in the thread pool: the write lands ... *)
DiskOk(fs, t) == [fs EXCEPT ![t.file] = FileOf(Utf8(t.data))]
(* ... or fails, before the file was opened or after it was truncated. *)
DiskFail(fs, t, truncated) ==
  IF truncated THEN [fs EXCEPT ![t.file] = FileOf(<<>>)] ELSE fs

(* Lines 50-51, the callback: reject(err) or resolve(data). *)
Settled(t) ==
  [t EXCEPT !.st = IF t.st = "failed" THEN "rejected" ELSE "resolved"]

-----------------------------------------------------------------------------
(* generate (lines 56-135). *)

IndexFile == <<"index.ts">>
validatorFilePostfix == <<".validate.js">>
ValidatorFileName(name) == name \o validatorFilePostfix

(* Line 63: options.pack === undefined ? true : options.pack.  A pack      *)
(* option is "undefined", "true", "false", "truthy" (1, 'yes', {}) or      *)
(* "falsy" (0, '', null).                                                  *)
PackValues == {"undefined", "true", "false", "truthy", "falsy"}
DefaultPack(p) == IF p = "undefined" THEN "true" ELSE p
(* Line 100: if (options.pack). *)
LoopPacked(p) == p \in {"true", "truthy"}
(* Line 124: if (options.pack === true). *)
TemplatePacked(p) == p = "true"

(* Line 94: toSafeString(definition.title || definitionKey); an absent     *)
(* title and the empty title are both falsy.                               *)
DefinitionName(d) == toSafeString(IF d.title # <<>> THEN d.title ELSE d.key)

(* Lines 141-147: the decoder declarations, kept by form and name. *)
decoderPack(name) == [form |-> "validatorAndPath", name |-> name]
decoderNoPack(name) == [form |-> "pathOnly", name |-> name]
DeclText(d) ==
  IF d.form = "validatorAndPath"
  THEN <<"static", " ">> \o d.name \o <<" = decode<">> \o d.name \o <<">(">>
         \o d.name \o <<"$validate, '">> \o d.name \o <<"');">>
  ELSE <<"static", " ">> \o d.name \o <<" = decode<">> \o d.name \o <<">('">>
         \o d.name \o <<"');">>

(* Line 102. *)
ImportText(name) ==
  <<"import * as ">> \o name \o <<"$validate from './">>
    \o ValidatorFileName(name) \o <<"'">>

(* Line 105: pack(ajv, validate), the standalone module of the validator   *)
(* ajv.getSchema('schema#/definitions/<key>') returned (line 96).          *)
ModuleCode(key) == <<"module.exports = validate:">> \o key

(* Lines 115-118: the translator's text and the container interface cut. *)
ModelText == <<"export interface GeneratedContainerSchema {}", "types">>
CleanModel(m) == SelectSeq(m, LAMBDA tok : tok # "export interface GeneratedContainerSchema {}")

(* Line 120, for an output folder whose base name is "ab". *)
OutputBase == <<"a", "b">>
decoderName == toSafeString(OutputBase) \o <<"Decoder">>

(* Lines 209-224, 187-207, 149-185. *)
decoder(decls, dname) ==
  <<"export class ">> \o dname \o <<"Error", "export class ">> \o dname
    \o <<"{">> \o JoinWith([i \in DOMAIN decls |-> DeclText(decls[i])], <<"\n">>) \o <<"}">>
templatePack(models, imports, decls, dname) ==
  <<"/* tslint:disable */">> \o JoinWith(imports, <<"\n">>) \o models
    \o <<"function decode<T>(validator, dataPath)">> \o decoder(decls, dname)
templateNoPack(models, decls, dname, defs) ==
  <<"/* tslint:disable */", "import * as Ajv from 'ajv';">> \o models
    \o <<"lazyAjv", "const schema = ">>
    \o Flatten([i \in DOMAIN defs |-> defs[i].key \o <<":">> \o defs[i].title])
    \o <<"function decode<T>(dataPath)">> \o decoder(decls, dname)

-----------------------------------------------------------------------------
(* State. *)

VARIABLES
  schema,       \* the schema document: [present, defs], defs a sequence of [key, title]
  optPack,      \* options.pack as the caller passed it
  outputFolder, \* the output folder: "absent", "dir" or "file" (a plain file)
  files,        \* the files of the output folder: path -> [exists, bytes]
  outputFolder0, \* the folder and the files when generate was called
  files0,
  pc,           \* where generate is
  idx,          \* the loop's position in Object.keys(schema.definitions)
  writeFiles,   \* the artifact write tasks, in the order issued
  imports,
  decoders,
  template,     \* "none", or the template the final module was built from
  indexTask,    \* the write of index.ts
  genError,     \* what generate rejected with
  written,      \* the paths fs.writeFile has written in this run
  wcalls,       \* SpecWriter: the writeFilePromise calls made, in order
  engine,       \* SpecDecode: the module's `ajv` variable, and how often new Ajv ran
  memo,         \* SpecDecode: each decode closure's `validator` variable
  lookups,      \* SpecDecode: getSchema calls made by each decode closure
  last,         \* SpecDecode: the last decode call and its outcome
  ncalls        \* SpecDecode: decode calls made

genVars == <<schema, optPack, outputFolder, files, outputFolder0, files0, pc, idx, writeFiles,
             imports, decoders, template, indexTask, genError, written>>
writerVars == <<wcalls>>
decodeVars == <<engine, memo, lookups, last, ncalls>>
vars == <<genVars, writerVars, decodeVars>>

-----------------------------------------------------------------------------
(* Inputs of generate. *)

KeyPool == << <<"a">>, <<"A">>, <<"A", "b">>, <<"a", "_", "b">> >>
TitlePool == { <<>>, <<"A">> }

RECURSIVE Ascending(_)
Ascending(S) ==
  IF S = {} THEN <<>>
  ELSE LET m == CHOOSE x \in S : \A y \in S : x <= y
       IN  <<m>> \o Ascending(S \ {m})

KeyChoices ==
  { Ascending(S) : S \in { T \in SUBSET DOMAIN KeyPool : Cardinality(T) <= MaxDefs } }

DefinitionSeqs ==
  UNION { { [i \in DOMAIN ks |-> [key |-> KeyPool[ks[i]], title |-> tf[i]]]
            : tf \in [DOMAIN ks -> TitlePool] } : ks \in KeyChoices }

(* schema = { definitions: schema.definitions } (line 61): definitions     *)
(* missing, or an object with zero or more keys.                           *)
SchemaDocs ==
  { [present |-> FALSE, defs |-> <<>>] }
    \cup { [present |-> TRUE, defs |-> ds] : ds \in DefinitionSeqs }

AllNames == { DefinitionName([key |-> KeyPool[i], title |-> t])
              : i \in DOMAIN KeyPool, t \in TitlePool }
GenPaths == { ValidatorFileName(n) : n \in AllNames } \cup { IndexFile }

(* The whole loop (lines 90-110) as functions of the definitions. *)
LoopDecls(defs, p) ==
  [i \in DOMAIN defs |->
     IF LoopPacked(p) THEN decoderPack(DefinitionName(defs[i]))
     ELSE decoderNoPack(DefinitionName(defs[i]))]
LoopImports(defs, p) ==
  IF LoopPacked(p) THEN [i \in DOMAIN defs |-> ImportText(DefinitionName(defs[i]))]
  ELSE <<>>

(* Lines 122-131: the final module's text. *)
Assemble(imps, decls, defs, p) ==
  IF TemplatePacked(p)
  THEN templatePack(CleanModel(ModelText), imps, decls, decoderName)
  ELSE templateNoPack(CleanModel(ModelText), decls, decoderName, defs)

ArtifactPaths(defs, p) ==
  IF LoopPacked(p) THEN { ValidatorFileName(DefinitionName(defs[i])) : i \in DOMAIN defs }
  ELSE {}

(* What an earlier run on the same input left at a path. *)
LeftBy(defs, p, path) ==
  IF path = IndexFile
  THEN Assemble(LoopImports(defs, p), LoopDecls(defs, p), defs, p)
  ELSE LET hits == { i \in DOMAIN defs : ValidatorFileName(DefinitionName(defs[i])) = path }
           l == CHOOSE i \in hits : \A j \in hits : j <= i
       IN  ModuleCode(defs[l].key)

InitFiles(defs, p, pre) ==
  [path \in GenPaths |->
     IF pre = "empty" \/ defs = <<>> \/ path \notin (ArtifactPaths(defs, p) \cup {IndexFile})
     THEN NoFile
     ELSE IF pre = "stale" THEN FileOf(<<"stale">>)
     ELSE FileOf(Utf8(LeftBy(defs, p, path)))]

NoTask == [file |-> <<>>, data |-> <<>>, st |-> "idle", issued |-> FALSE]
NoError == [kind |-> "none", task |-> 0]
NoValidator == [found |-> FALSE, key |-> <<>>]
NoErrors == [present |-> FALSE, list |-> <<>>]
NoCall == [fn |-> 0, json |-> "none", verdict |-> "none", errors |-> NoErrors,
           outcome |-> "none", error |-> "none", message |-> <<>>, value |-> "none",
           validator |-> NoValidator]

WriterIdle == wcalls = <<>>
DecodeIdle ==
  /\ engine = [built |-> FALSE, count |-> 0]
  /\ memo = <<>>
  /\ lookups = <<>>
  /\ last = NoCall
  /\ ncalls = 0

Init ==
  /\ schema \in SchemaDocs
  /\ optPack \in PackValues
  /\ outputFolder \in {"absent", "dir", "file"}
  /\ \E pre \in {"empty", "stale", "rerun"} :
       files = InitFiles(schema.defs, DefaultPack(optPack),
                         IF outputFolder = "dir" THEN pre ELSE "empty")
  /\ outputFolder0 = outputFolder
  /\ files0 = files
  /\ pc = "start"
  /\ idx = 1
  /\ writeFiles = <<>>
  /\ imports = <<>>
  /\ decoders = <<>>
  /\ template = "none"
  /\ indexTask = NoTask
  /\ genError = NoError
  /\ written = {}
  /\ WriterIdle
  /\ DecodeIdle

-----------------------------------------------------------------------------
(* generate's steps. *)

(* Mutant: Promise.race, which settles with the first task to settle. *)
PromiseRace(ts) ==
  IF \E k \in DOMAIN ts : ts[k].st = "rejected" THEN "rejected"
  ELSE IF ts = <<>> \/ \E k \in DOMAIN ts : ts[k].st = "resolved" THEN "resolved"
  ELSE "pending"

(* Mutant: Promise.allSettled, which never rejects. *)
PromiseAllSettled(ts) ==
  IF \A k \in DOMAIN ts : ts[k].st \in {"resolved", "rejected"} THEN "resolved"
  ELSE "pending"

(* Line 112: Promise.all over the tasks issued. *)
PromiseAll(ts) ==
  IF \E k \in DOMAIN ts : ts[k].st = "rejected" THEN "rejected"
  ELSE IF \A k \in DOMAIN ts : ts[k].st = "resolved" THEN "resolved"
  ELSE "pending"

FirstRejected(ts) ==
  CHOOSE k \in DOMAIN ts :
    ts[k].st = "rejected" /\ \A j \in DOMAIN ts : ts[j].st = "rejected" => k <= j

IoError(k) == [kind |-> "io", task |-> k]

(* Lines 61-75: mkdirSync when the folder is missing, then the directory         *)
(* check, then the definitions check.                                      *)
GenPrepare ==
  /\ pc = "start"
  /\ outputFolder' = IF outputFolder = "absent" THEN "dir" ELSE outputFolder
  /\ IF outputFolder' # "dir"
     THEN pc' = "rejected" /\ genError' = [kind |-> "NotADirectory", task |-> 0]
     ELSE IF ~schema.present \/ Len(schema.defs) = 0
     THEN pc' = "rejected" /\ genError' = [kind |-> "NoDefinitions", task |-> 0]
     ELSE pc' = "loop" /\ genError' = genError
  /\ UNCHANGED <<schema, optPack, files, outputFolder0, files0, idx, writeFiles, imports,
                 decoders, template, indexTask, written>>

(* Lines 90-110, one iteration. *)
GenLoopStep ==
  /\ pc = "loop"
  /\ idx <= Len(schema.defs)
  /\ LET d == schema.defs[idx]
         name == DefinitionName(d)
     IN  IF LoopPacked(DefaultPack(optPack))
         THEN /\ imports' = Append(imports, ImportText(name))
              /\ decoders' = Append(decoders, decoderPack(name))
              /\ \E t \in StartOutcomes(files, ValidatorFileName(name), ModuleCode(d.key)) :
                   writeFiles' = Append(writeFiles, t)
         ELSE /\ decoders' = Append(decoders, decoderNoPack(name))
              /\ UNCHANGED <<imports, writeFiles>>
  /\ idx' = idx + 1
  /\ UNCHANGED <<schema, optPack, outputFolder, files, outputFolder0, files0, pc, template,
                 indexTask, genError, written>>

(* Where generate goes when Promise.all over ts has the state it has. *)
AfterAll(ts, k) ==
  IF PromiseAll(ts) = "rejected" THEN [pc |-> "rejected", err |-> IoError(k)]
  ELSE IF PromiseAll(ts) = "resolved" THEN [pc |-> "assemble", err |-> NoError]
  ELSE [pc |-> "await", err |-> NoError]

(* Line 112 reached: generate suspends, or goes on at once. *)
GenAwait ==
  /\ pc = "loop"
  /\ idx > Len(schema.defs)
  /\ LET nxt == AfterAll(writeFiles, IF PromiseAll(writeFiles) = "rejected"
                                THEN FirstRejected(writeFiles) ELSE 0)
     IN  pc' = nxt.pc /\ genError' = nxt.err
  /\ UNCHANGED <<schema, optPack, outputFolder, files, outputFolder0, files0, idx, writeFiles,
                 imports, decoders, template, indexTask, written>>

(* fs.writeFile of task k completes in the thread pool, whatever generate  *)
(* is doing.                                                               *)
TaskDiskOk(k) ==
  /\ writeFiles[k].st = "writing"
  /\ files' = DiskOk(files, writeFiles[k])
  /\ written' = written \cup {writeFiles[k].file}
  /\ writeFiles' = [writeFiles EXCEPT ![k].st = "flushed"]
  /\ UNCHANGED <<schema, optPack, outputFolder, outputFolder0, files0, pc, idx, imports,
                 decoders, template, indexTask, genError>>

TaskDiskFail(k) ==
  /\ writeFiles[k].st = "writing"
  /\ \E truncated \in BOOLEAN : files' = DiskFail(files, writeFiles[k], truncated)
  /\ writeFiles' = [writeFiles EXCEPT ![k].st = "failed"]
  /\ UNCHANGED <<schema, optPack, outputFolder, outputFolder0, files0, pc, idx, imports,
                 decoders, template, indexTask, genError, written>>

(* writeFile's callback runs once generate has yielded; a settled promise  *)
(* wakes generate if it still waits on Promise.all.                        *)
TaskSettle(k) ==
  /\ pc \in {"await", "rejected"}
  /\ writeFiles[k].st \in {"flushed", "failed"}
  /\ writeFiles' = [writeFiles EXCEPT ![k] = Settled(writeFiles[k])]
  /\ IF pc = "await"
     THEN LET nxt == AfterAll(writeFiles', k)
          IN  pc' = nxt.pc /\ genError' = nxt.err
     ELSE UNCHANGED <<pc, genError>>
  /\ UNCHANGED <<schema, optPack, outputFolder, files, outputFolder0, files0, idx, imports,
                 decoders, template, indexTask, written>>

(* Lines 115-134: the final module is assembled and its write started. *)
GenAssemble ==
  /\ pc = "assemble"
  /\ template' = IF TemplatePacked(DefaultPack(optPack)) THEN "pack" ELSE "nopack"
  /\ \E t \in StartOutcomes(files, IndexFile,
                            Assemble(imports, decoders, schema.defs, DefaultPack(optPack))) :
       /\ indexTask' = t
       /\ pc' = IF t.st = "resolved" THEN "done"
                ELSE IF t.st = "rejected" THEN "rejected" ELSE "indexPending"
       /\ genError' = IF t.st = "rejected" THEN IoError(0) ELSE genError
  /\ UNCHANGED <<schema, optPack, outputFolder, files, outputFolder0, files0, idx, writeFiles,
                 imports, decoders, written>>

IndexDiskOk ==
  /\ indexTask.st = "writing"
  /\ files' = DiskOk(files, indexTask)
  /\ written' = written \cup {IndexFile}
  /\ indexTask' = [indexTask EXCEPT !.st = "flushed"]
  /\ UNCHANGED <<schema, optPack, outputFolder, outputFolder0, files0, pc, idx, writeFiles, imports,
                 decoders, template, genError>>

IndexDiskFail ==
  /\ indexTask.st = "writing"
  /\ \E truncated \in BOOLEAN : files' = DiskFail(files, indexTask, truncated)
  /\ indexTask' = [indexTask EXCEPT !.st = "failed"]
  /\ UNCHANGED <<schema, optPack, outputFolder, outputFolder0, files0, pc, idx, writeFiles, imports,
                 decoders, template, genError, written>>

IndexSettle ==
  /\ indexTask.st \in {"flushed", "failed"}
  /\ indexTask' = Settled(indexTask)
  /\ pc' = IF indexTask.st = "failed" THEN "rejected" ELSE "done"
  /\ genError' = IF indexTask.st = "failed" THEN IoError(0) ELSE genError
  /\ UNCHANGED <<schema, optPack, outputFolder, files, outputFolder0, files0, idx, writeFiles,
                 imports, decoders, template, written>>

Next ==
  \/ GenPrepare /\ UNCHANGED <<writerVars, decodeVars>>
  \/ GenLoopStep /\ UNCHANGED <<writerVars, decodeVars>>
  \/ GenAwait /\ UNCHANGED <<writerVars, decodeVars>>
  \/ \E k \in DOMAIN writeFiles : TaskDiskOk(k) /\ UNCHANGED <<writerVars, decodeVars>>
  \/ \E k \in DOMAIN writeFiles : TaskDiskFail(k) /\ UNCHANGED <<writerVars, decodeVars>>
  \/ \E k \in DOMAIN writeFiles : TaskSettle(k) /\ UNCHANGED <<writerVars, decodeVars>>
  \/ GenAssemble /\ UNCHANGED <<writerVars, decodeVars>>
  \/ IndexDiskOk /\ UNCHANGED <<writerVars, decodeVars>>
  \/ IndexDiskFail /\ UNCHANGED <<writerVars, decodeVars>>
  \/ IndexSettle /\ UNCHANGED <<writerVars, decodeVars>>

Spec == Init /\ [][Next]_vars

-----------------------------------------------------------------------------
(* SpecWriter: writeFilePromise called again and again, each call settled  *)
(* before the next one starts.                                             *)

WriterPaths == { IndexFile, ValidatorFileName(<<"A">>) }
WriterData == { <<"x">>, <<"\\uD800">>, <<"\\uFFFD">> }

GenIdle ==
  /\ schema = [present |-> FALSE, defs |-> <<>>]
  /\ optPack = "undefined"
  /\ outputFolder = "dir"
  /\ outputFolder0 = "dir"
  /\ files0 = files
  /\ pc = "idle"
  /\ idx = 1
  /\ writeFiles = <<>>
  /\ imports = <<>>
  /\ decoders = <<>>
  /\ template = "none"
  /\ indexTask = NoTask
  /\ genError = NoError
  /\ written = {}

InitWriter ==
  /\ files \in [WriterPaths -> {NoFile} \cup { FileOf(Utf8(d)) : d \in WriterData }]
  /\ wcalls = <<>>
  /\ GenIdle
  /\ DecodeIdle

LastCall == wcalls[Len(wcalls)]
CallSettled(c) == c.t.st \in {"resolved", "rejected"}

(* Lines 35-49 of one call: before holds what the path held when called. *)
WriterCall(file, data) ==
  /\ Len(wcalls) < MaxWriterCalls
  /\ IF wcalls = <<>> THEN TRUE ELSE CallSettled(LastCall)
  /\ \E t \in StartOutcomes(files, file, data) :
       wcalls' = Append(wcalls, [t |-> t, before |-> files[file], after |-> files[file]])
  /\ UNCHANGED files

WriterDiskOk ==
  /\ wcalls # <<>>
  /\ LastCall.t.st = "writing"
  /\ files' = DiskOk(files, LastCall.t)
  /\ wcalls' = [wcalls EXCEPT ![Len(wcalls)].t.st = "flushed"]

WriterDiskFail ==
  /\ wcalls # <<>>
  /\ LastCall.t.st = "writing"
  /\ \E truncated \in BOOLEAN : files' = DiskFail(files, LastCall.t, truncated)
  /\ wcalls' = [wcalls EXCEPT ![Len(wcalls)].t.st = "failed"]

WriterSettle ==
  /\ wcalls # <<>>
  /\ LastCall.t.st \in {"flushed", "failed"}
  /\ wcalls' = [wcalls EXCEPT ![Len(wcalls)] =
                  [t |-> Settled(LastCall.t), before |-> LastCall.before,
                   after |-> files[LastCall.t.file]]]
  /\ UNCHANGED files

writerRest == <<schema, optPack, outputFolder, outputFolder0, files0, pc, idx, writeFiles, imports,
                decoders, template, indexTask, genError, written, decodeVars>>

NextWriter ==
  \/ \E file \in WriterPaths, data \in WriterData :
       WriterCall(file, data) /\ UNCHANGED writerRest
  \/ WriterDiskOk /\ UNCHANGED writerRest
  \/ WriterDiskFail /\ UNCHANGED writerRest
  \/ WriterSettle /\ UNCHANGED writerRest

SpecWriter == InitWriter /\ [][NextWriter]_vars

-----------------------------------------------------------------------------
(* SpecDecode: the generated module at run time (the text of lines 149-224 *)
(* as it executes), for a module generate has written.                     *)

JsonValues == { "json1", "json2" }
ErrorPaths == { <<>>, <<".a">> }
ErrorMessages == { <<"should", " ", "be", " ", "string">> }
ErrorEntries == { [dataPath |-> dp, message |-> m] : dp \in ErrorPaths, m \in ErrorMessages }
ErrorLists == UNION { [1..n -> ErrorEntries] : n \in 0..MaxErrors }
(* validator.errors after a rejection: a list, or null/undefined. *)
ErrorValues == { NoErrors } \cup { [present |-> TRUE, list |-> l] : l \in ErrorLists }

(* String.prototype.trim on a text whose only white-space token is " ". *)
RECURSIVE TrimLeft(_)
TrimLeft(s) == IF s # <<>> /\ Head(s) = " " THEN TrimLeft(Tail(s)) ELSE s
RECURSIVE TrimRight(_)
TrimRight(s) ==
  IF s # <<>> /\ s[Len(s)] = " " THEN TrimRight(SubSeq(s, 1, Len(s) - 1)) ELSE s
Trim(s) == TrimRight(TrimLeft(s))

(* Mutant: the rendering without .trim(). *)
RenderErrorUntrimmed(e) == e.dataPath \o <<" ">> \o e.message

(* Lines 177 and 198: `${error.dataPath} ${error.message}`.trim(). *)
RenderError(e) == Trim(e.dataPath \o <<" ">> \o e.message)

(* Lines 176-177 and 197-198: validator.errors || [], map, join, || 'unknown'. *)
ErrorMessage(errors) ==
  LET list == IF errors.present THEN errors.list ELSE <<>>
      joined == JoinWith([i \in DOMAIN list |-> RenderError(list[i])], <<",", " ">>)
  IN  IF joined = <<>> THEN <<"unknown">> ELSE joined

(* Lines 178 and 199: the message of the error thrown. *)
DecodeErrorMessage(dataPath, errors) ==
  <<"Error", " ", "validating", " ">> \o dataPath \o <<":", " ">> \o ErrorMessage(errors)

(* Line 172: lazyAjv().getSchema(`schema#/definitions/${dataPath}`) on the *)
(* embedded schema: the validator of the definition whose key is dataPath, *)
(* or undefined when the schema has no such key.                           *)
getSchema(defs, dataPath) ==
  IF \E i \in DOMAIN defs : defs[i].key = dataPath
  THEN [found |-> TRUE, key |-> dataPath]
  ELSE NoValidator

(* Lines 158-165: lazyAjv builds the engine unless `ajv` is set. *)
lazyAjv(e) == IF ~e.built THEN [built |-> TRUE, count |-> e.count + 1] ELSE e

(* Lines 171-173: the closure resolves its validator unless it holds one. *)
NeedsLookup(v) == ~v.found

(* Packed: `import * as N$validate from './N.validate.js'` binds the       *)
(* validator whose module that file holds.                                 *)
ImportedValidator(fs, defs, name) ==
  LET hits == { i \in DOMAIN defs :
                  fs[ValidatorFileName(name)].bytes = Utf8(ModuleCode(defs[i].key)) }
  IN  [found |-> TRUE, key |-> defs[CHOOSE i \in hits : TRUE].key]

(* A static member declared twice keeps its last initializer. *)
Callable(decls, i) == \A j \in DOMAIN decls : j > i => decls[j].name # decls[i].name

(* Lines 175-181 and 196-202: the outcome of decode for a validator that   *)
(* accepts or rejects json; a missing validator is not a function.         *)
Outcome(i, v, json, verdict, errors, dataPath) ==
  IF ~v.found
  THEN [fn |-> i, json |-> json, verdict |-> "none", errors |-> NoErrors,
        outcome |-> "threw", error |-> "TypeError", message |-> <<"validator is not a function">>,
        value |-> "none", validator |-> v]
  ELSE IF verdict = "reject"
  THEN [fn |-> i, json |-> json, verdict |-> verdict, errors |-> errors,
        outcome |-> "threw", error |-> "DecodeError",
        message |-> DecodeErrorMessage(dataPath, errors), value |-> json, validator |-> v]
  ELSE [fn |-> i, json |-> json, verdict |-> verdict, errors |-> NoErrors,
        outcome |-> "returned", error |-> "none", message |-> <<>>, value |-> json,
        validator |-> v]

InitDecode ==
  /\ schema \in { sd \in SchemaDocs : sd.defs # <<>> }
  /\ optPack \in { p \in PackValues :
                     LoopPacked(DefaultPack(p)) = TemplatePacked(DefaultPack(p)) }
  /\ outputFolder = "dir"
  /\ outputFolder0 = "dir"
  /\ files = InitFiles(schema.defs, DefaultPack(optPack), "rerun")
  /\ files0 = files
  /\ pc = "done"
  /\ idx = Len(schema.defs) + 1
  /\ writeFiles = <<>>
  /\ imports = LoopImports(schema.defs, DefaultPack(optPack))
  /\ decoders = LoopDecls(schema.defs, DefaultPack(optPack))
  /\ template = IF TemplatePacked(DefaultPack(optPack)) THEN "pack" ELSE "nopack"
  /\ indexTask = NoTask
  /\ genError = NoError
  /\ written = {}
  /\ WriterIdle
  /\ engine = [built |-> FALSE, count |-> 0]
  /\ memo = [i \in DOMAIN decoders |-> NoValidator]
  /\ lookups = [i \in DOMAIN decoders |-> 0]
  /\ last = NoCall
  /\ ncalls = 0

(* A call of the unpacked module's decode closure i (lines 170-182). *)
DecodeNoPack(i, json, verdict, errors) ==
  /\ template = "nopack"
  /\ ncalls < MaxCalls
  /\ Callable(decoders, i)
  /\ ncalls' = ncalls + 1
  /\ LET look == NeedsLookup(memo[i])
         v == IF look THEN getSchema(schema.defs, decoders[i].name) ELSE memo[i]
     IN  /\ engine' = IF look THEN lazyAjv(engine) ELSE engine
         /\ lookups' = [lookups EXCEPT ![i] = IF look THEN @ + 1 ELSE @]
         /\ memo' = [memo EXCEPT ![i] = v]
         /\ last' = Outcome(i, v, json, verdict, errors, decoders[i].name)

(* A call of the packed module's decode closure i (lines 195-203). *)
DecodePack(i, json, verdict, errors) ==
  /\ template = "pack"
  /\ ncalls < MaxCalls
  /\ Callable(decoders, i)
  /\ ncalls' = ncalls + 1
  /\ last' = Outcome(i, ImportedValidator(files, schema.defs, decoders[i].name),
                     json, verdict, errors, decoders[i].name)
  /\ UNCHANGED <<engine, memo, lookups>>

(* What a validator can answer: true, or false with its errors property. *)
Verdicts ==
  { [verdict |-> "accept", errors |-> NoErrors] }
    \cup { [verdict |-> "reject", errors |-> e] : e \in ErrorValues }

NextDecode ==
  \/ \E i \in DOMAIN decoders, json \in JsonValues, r \in Verdicts :
       DecodeNoPack(i, json, r.verdict, r.errors) /\ UNCHANGED <<genVars, writerVars>>
  \/ \E i \in DOMAIN decoders, json \in JsonValues, r \in Verdicts :
       DecodePack(i, json, r.verdict, r.errors) /\ UNCHANGED <<genVars, writerVars>>

SpecDecode == InitDecode /\ [][NextDecode]_vars

-----------------------------------------------------------------------------
(* Claims about generate, checked under Spec. *)

(* C1: in a run of generate the write of index.ts starts, and index.ts is  *)
(* written, only when every artifact write task of the run has resolved:   *)
(* none is pending and none has failed.                                    *)
C1_IndexAfterArtifacts ==
  (indexTask.st # "idle" \/ IndexFile \in written)
    => \A k \in DOMAIN writeFiles : writeFiles[k].st = "resolved"

C1_Witness ==
  /\ LoopPacked(DefaultPack(optPack))
  /\ Len(writeFiles) >= 2
  /\ \A k \in DOMAIN writeFiles : writeFiles[k].issued /\ writeFiles[k].file \in written
  /\ IndexFile \in written

(* C3: with no definitions (missing or empty) and an output path that is   *)
(* not a plain file, generate fails with 'No definitions found' and the    *)
(* file system is as it was: no file and no directory was created.         *)
C3_FailsBeforeAnyIO ==
  ((~schema.present \/ schema.defs = <<>>) /\ outputFolder0 # "file" /\ pc # "start")
    => /\ pc = "rejected"
       /\ genError.kind = "NoDefinitions"
       /\ outputFolder = outputFolder0
       /\ files = files0

(* C4: a successful run on an empty output directory leaves index.ts and,  *)
(* in packed mode, one artifact file per definition (N definitions, N      *)
(* files), in unpacked mode no artifact file.                              *)
C4_OneFilePerDefinition ==
  (/\ pc = "done"
   /\ \A p \in DOMAIN files0 : ~files0[p].exists
   /\ optPack \in {"undefined", "true", "false"})
    => LET present == { p \in DOMAIN files : files[p].exists }
           artifacts == present \ {IndexFile}
       IN  /\ IndexFile \in present
           /\ IF TemplatePacked(DefaultPack(optPack))
              THEN Cardinality(artifacts) = Len(schema.defs)
              ELSE artifacts = {}

(* C7: once an artifact write task has rejected and generate has reached   *)
(* Promise.all, generate has rejected with the error of a failed task and  *)
(* index.ts is neither started nor written; a failed write's callback is   *)
(* due as soon as generate waits; after the rejection the error stays, no  *)
(* file is removed, and a task still writing can still complete.           *)
C7_AbortOnWriteFailure ==
  /\ []( \A k \in DOMAIN writeFiles :
           (writeFiles[k].st = "failed" /\ pc # "loop") => ENABLED TaskSettle(k) )
  /\ []( ((\E k \in DOMAIN writeFiles : writeFiles[k].st = "rejected") /\ pc # "loop")
           => /\ pc = "rejected"
              /\ genError.kind = "io"
              /\ genError.task \in DOMAIN writeFiles
              /\ writeFiles[genError.task].st = "rejected"
              /\ indexTask.st = "idle"
              /\ IndexFile \notin written )
  /\ []( \A k \in DOMAIN writeFiles :
           (pc = "rejected" /\ writeFiles[k].st = "writing") => ENABLED TaskDiskOk(k) )
  /\ [][ pc = "rejected"
           => /\ pc' = "rejected"
              /\ genError' = genError
              /\ \A p \in DOMAIN files : files[p].exists => files'[p].exists ]_vars

C7_Witness ==
  /\ pc = "rejected"
  /\ genError.kind = "io"
  /\ \E k, j \in DOMAIN writeFiles :
       /\ writeFiles[k].st = "rejected"
       /\ writeFiles[k].issued
       /\ writeFiles[j].st = "resolved"
       /\ writeFiles[j].issued
       /\ files[writeFiles[j].file] = FileOf(Utf8(writeFiles[j].data))
  /\ ~files[IndexFile].exists

(* C9: the artifact write tasks of a run target pairwise distinct paths. *)
C9_DistinctPaths ==
  \A j, k \in DOMAIN writeFiles : j # k => writeFiles[j].file # writeFiles[k].file

(* C10: the declarations collected in the loop are of the mode of the      *)
(* template the final module is built from, whatever options.pack is, and  *)
(* an absent pack option selects the packed template.                      *)
C10_OneModePerRun ==
  template # "none"
    => /\ \A i \in DOMAIN decoders :
            (decoders[i].form = "validatorAndPath") <=> (template = "pack")
       /\ optPack = "undefined" => template = "pack"

-----------------------------------------------------------------------------
(* Claims about writeFilePromise, checked under SpecWriter. *)

Pairs ==
  { i \in DOMAIN wcalls :
      /\ i + 1 \in DOMAIN wcalls
      /\ wcalls[i + 1].t.file = wcalls[i].t.file
      /\ wcalls[i + 1].t.data = wcalls[i].t.data }
Writes(c) == IF c.t.issued THEN 1 ELSE 0
NeedsWrite(c) == ~c.before.exists \/ c.before.bytes # Utf8(c.t.data)

(* C2, as stated, for calls that meet no I/O error: two calls in sequence  *)
(* with the same path and content issue exactly one write between them,    *)
(* the second issuing none and leaving the bytes as they were; and a call  *)
(* whose content differs from the existing bytes, or whose path is         *)
(* missing, writes.                                                        *)
C2_TwiceWritesOnce ==
  /\ \A i \in Pairs :
       (wcalls[i].t.st = "resolved" /\ wcalls[i + 1].t.st = "resolved")
         => /\ Writes(wcalls[i]) + Writes(wcalls[i + 1]) = 1
            /\ ~wcalls[i + 1].t.issued
            /\ wcalls[i + 1].after = wcalls[i + 1].before
  /\ \A i \in DOMAIN wcalls :
       (wcalls[i].t.st = "resolved" /\ NeedsWrite(wcalls[i])) => wcalls[i].t.issued

(* C2, amended: when the first of two such calls resolves, the second      *)
(* issues no write and leaves the bytes as they were, and the two issue    *)
(* one write if the first found the path missing or holding other bytes    *)
(* and none if the path already held these bytes; a call writes only if    *)
(* the path is missing or holds other bytes, always if the path is         *)
(* missing, and a call that resolves without writing found equal bytes.    *)
C2_SecondCallWritesNothing ==
  /\ \A i \in Pairs :
       wcalls[i].t.st = "resolved"
         => /\ ~wcalls[i + 1].t.issued
            /\ wcalls[i + 1].after = wcalls[i + 1].before
            /\ wcalls[i + 1].before.bytes = Utf8(wcalls[i].t.data)
            /\ Writes(wcalls[i]) + Writes(wcalls[i + 1])
                 = IF NeedsWrite(wcalls[i]) THEN 1 ELSE 0
  /\ \A i \in DOMAIN wcalls :
       /\ wcalls[i].t.issued => NeedsWrite(wcalls[i])
       /\ ~wcalls[i].before.exists => wcalls[i].t.issued
       /\ (wcalls[i].t.st = "resolved" /\ ~wcalls[i].t.issued) => ~NeedsWrite(wcalls[i])

C2_Witness ==
  \E i \in Pairs :
    /\ wcalls[i].t.issued
    /\ wcalls[i].t.st = "resolved"
    /\ wcalls[i + 1].t.st = "resolved"
    /\ ~wcalls[i + 1].t.issued

-----------------------------------------------------------------------------
(* Claims about the generated module, checked under SpecDecode. *)

(* C5: in the unpacked module the engine is constructed at most once and   *)
(* every decode function calls getSchema at most once.                     *)
C5_AtMostOnce ==
  /\ engine.count <= 1
  /\ \A i \in DOMAIN lookups : lookups[i] <= 1

(* C8: in the unpacked module the decode function emitted for a definition *)
(* resolves, at 'schema#/definitions/<its data path>', a validator, and it *)
(* is the validator of that definition's own key.                          *)
C8_LookupFindsOwnValidator ==
  (template = "nopack" /\ last.fn # 0)
    => last.validator = [found |-> TRUE, key |-> schema.defs[last.fn].key]

Contains(s, sub) ==
  /\ Len(sub) <= Len(s)
  /\ \E i \in 1..(Len(s) - Len(sub) + 1) : SubSeq(s, i, i + Len(sub) - 1) = sub

(* '<path> <message>' as the claim writes it, and with the white space     *)
(* around it removed.                                                      *)
EntryAsStated(e) == e.dataPath \o <<" ">> \o e.message
EntryTrimmed(e) == IF e.dataPath = <<>> THEN e.message ELSE EntryAsStated(e)

(* The error list of the last call: validator.errors, or none. *)
LastErrors == IF last.errors.present THEN last.errors.list ELSE <<>>

(* The last call reports as claimed, entries being the rendered errors. *)
DecodeReports(entries) ==
  /\ last.verdict = "reject"
       => /\ last.outcome = "threw"
          /\ last.error = "DecodeError"
          /\ last.value = last.json
          /\ Contains(last.message,
                      IF entries = <<>> THEN <<"unknown">>
                      ELSE JoinWith(entries, <<",", " ">>))
  /\ last.verdict = "accept"
       => /\ last.outcome = "returned"
          /\ last.error = "none"
          /\ last.value = last.json

(* C6, as stated: a rejected input raises DecodeError with the input as    *)
(* json and a message containing the entries rendered '<path> <message>',  *)
(* in order, joined by ', ', or 'unknown' for an empty or absent list; an  *)
(* accepted input is returned as it is.                                    *)
C6_MessageAsStated ==
  DecodeReports([i \in DOMAIN LastErrors |-> EntryAsStated(LastErrors[i])])

(* C6, amended: the same, each entry being rendered '<path> <message>'     *)
(* with surrounding white space trimmed, so that an entry with an empty    *)
(* path is rendered as its message alone.                                  *)
C6_MessageTrimmed ==
  DecodeReports([i \in DOMAIN LastErrors |-> EntryTrimmed(LastErrors[i])])

C6_Witness ==
  /\ last.verdict = "reject"
  /\ last.errors.present
  /\ Len(last.errors.list) = 2
  /\ last.errors.list[1].dataPath # <<>>
  /\ last.errors.list[2].dataPath = <<>>
  /\ last.error = "DecodeError"

====
